---- MODULE Spec2Model ----
(***************************************************************************)
(* Model of rag_app: the RAGHandler (app/rag_handler.py) that owns the     *)
(* process-wide FAISS vector store, and the two FastAPI endpoints          *)
(* (app/main.py) that drive it from coroutines of one event loop.          *)
(*                                                                         *)
(* A chunk is a number 10*f+k: the k-th chunk the splitter produces for    *)
(* file f.  The vector store is the sequence of chunks in insertion order. *)
(* The persisted index is absent, unreadable ("corrupt": truncated or      *)
(* incompatible data) or a readable copy of a sequence of chunks.          *)
(***************************************************************************)
EXTENDS Integers, Sequences, FiniteSets, TLC

VARIABLES
    proc,          \* "down" | "up" | "crashed": the server process
    boots,         \* number of process starts so far
    vector_store,  \* RAGHandler.vector_store (in memory)
    disk,          \* what is stored at VECTOR_STORE_PATH
    loop,          \* the request whose coroutine holds the event loop, 0 if none
    req            \* per request: the locals of its handler and its position

vars == <<proc, boots, vector_store, disk, loop, req>>

----------------------------------------------------------------------------
(* Bounds *)

MaxRequests == 2      \* requests served over the whole run
MaxBatch    == 2      \* paths in one load_and_process_documents call
MaxUpload   == 2      \* files in one upload request
MaxBoots    == 2      \* process starts (MaxBoots - 1 restarts)

Slots == 1..MaxRequests

----------------------------------------------------------------------------
(* Values *)

None == [present |-> FALSE, chunks |-> <<>>]
Index(cs) == [present |-> TRUE, chunks |-> cs]

DiskAbsent  == [st |-> "absent",  chunks |-> <<>>]
DiskCorrupt == [st |-> "corrupt", chunks |-> <<>>]
DiskOk(cs)  == [st |-> "ok",      chunks |-> cs]

(* The files of the run.  1: a.txt, two chunks.  2: b.PDF, one chunk.      *)
(* 3: c.txt, not on disk.  4: d.md.  5: e.docx whose loader raises.        *)
Files == 1..5

Exists(f) == f # 3

Extension(f) ==
    CASE f = 1 -> ".txt"
      [] f = 2 -> ".PDF"
      [] f = 3 -> ".txt"
      [] f = 4 -> ".md"
      [] OTHER -> ".docx"

Lower(e) == IF e = ".PDF" THEN ".pdf" ELSE e

LoaderRaises(f) == f = 5

SplitDocuments(f) ==
    CASE f = 1 -> <<11, 12>>
      [] f = 2 -> <<21>>
      [] OTHER -> <<>>

(* Sequences over S of length lo..hi *)
SeqsOf(S, lo, hi) == UNION {[1..n -> S] : n \in lo..hi}

Batches == SeqsOf(Files, 0, MaxBatch)

(* One uploaded part: a named file whose save succeeds, a part without a   *)
(* filename, or a part whose save fails at open() or at read()/write().    *)
UploadFiles == {1, 2, 4}
UploadItems ==
    {[file |-> f, out |-> "ok"] : f \in UploadFiles}
    \cup {[file |-> 1, out |-> o] : o \in {"noname", "openfail", "writefail"}}

Uploads == SeqsOf(UploadItems, 1, MaxUpload)

(* Query strings and str.strip() on them *)
Queries == {"", "  ", "q", " q "}
Strip(q) == CASE q = "  " -> "" [] q = " q " -> "q" [] OTHER -> q

(* Python values that response.get("result") can be *)
PyNone   == [t |-> "none", s |-> "", n |-> 0]
PyStr(s) == [t |-> "str", s |-> s, n |-> 0]
PyInt(n) == [t |-> "int", s |-> "", n |-> n]

Results == {PyNone, PyStr(""), PyStr("Paris"), PyStr(" Paris. "), PyInt(0), PyInt(7)}

Truthy(v) ==
    CASE v.t = "none" -> FALSE
      [] v.t = "str"  -> v.s # ""
      [] OTHER        -> v.n # 0

Str(v) ==
    CASE v.t = "str"  -> v.s
      [] v.t = "none" -> "None"
      [] OTHER        -> IF v.n = 0 THEN "0" ELSE "7"

(* What a call returned *)
Pending    == [t |-> "pending", s |-> ""]
RetNone    == [t |-> "none", s |-> ""]
RetStr(s)  == [t |-> "str", s |-> s]
RetRaise   == [t |-> "raise", s |-> ""]

IdleReq ==
    [kind |-> "idle", pc |-> "idle",
     items |-> <<>>, i |-> 0, file_paths |-> <<>>,
     all_chunks |-> <<>>, ops |-> <<>>, saves |-> 0, saveout |-> "none",
     pre |-> None, predisk |-> DiskAbsent,
     query |-> "", invoked |-> <<>>, outcome |-> "none", result |-> PyNone,
     ret |-> Pending, http |-> 0]

GoneReq == [IdleReq EXCEPT !.kind = "gone", !.pc = "gone"]

----------------------------------------------------------------------------
(* Process start: RAGHandler.__init__ and _load_vector_store *)

PathExists(d) == d.st # "absent"

(* FAISS.load_local: the index, or an exception on unreadable data *)
LoadLocal(d) ==
    IF d.st = "ok" THEN [exc |-> FALSE, store |-> Index(d.chunks)]
                   ELSE [exc |-> TRUE,  store |-> None]

(* _load_vector_store without its try/except *)
LoadVectorStoreUncaught(d) ==
    IF PathExists(d)
    THEN LET r == LoadLocal(d)
         IN  [raised |-> r.exc, store |-> r.store]
    ELSE [raised |-> FALSE, store |-> None]

LoadVectorStore(d) ==
    IF PathExists(d)
    THEN LET r == LoadLocal(d)
         IN  IF r.exc THEN [raised |-> FALSE, store |-> None]
                      ELSE [raised |-> FALSE, store |-> r.store]
    ELSE [raised |-> FALSE, store |-> None]

Boot ==
    /\ proc = "down"
    /\ boots < MaxBoots
    /\ LET r == LoadVectorStore(disk)
       IN  /\ proc' = IF r.raised THEN "crashed" ELSE "up"
           /\ vector_store' = r.store
    /\ boots' = boots + 1
    /\ UNCHANGED <<disk, loop, req>>

(* The process is killed: memory and the requests in flight are lost *)
Crash ==
    /\ proc = "up"
    /\ boots < MaxBoots
    /\ proc' = "down"
    /\ vector_store' = None
    /\ loop' = 0
    /\ req' = [r \in Slots |-> IF req[r].kind = "idle" THEN req[r] ELSE GoneReq]
    /\ UNCHANGED <<disk, boots>>

----------------------------------------------------------------------------
(* A new request takes the first free slot (the slots are only names) *)
Free(r) ==
    /\ req[r].kind = "idle"
    /\ \A s \in Slots : s < r => req[s].kind # "idle"

----------------------------------------------------------------------------
(* The event loop.  A handler is a coroutine: it runs without interruption *)
(* until it awaits, and the only await of the two handlers is              *)
(* `await file.read()` in upload_documents.  The calls into RAGHandler are *)
(* plain blocking calls made from the coroutine.                           *)

(* The handler run in a worker thread (declared `def`): the thread can be  *)
(* switched out inside the blocking embedding call of the index operation. *)
AwaitPcsThreaded == {"up_await", "lapd_create", "lapd_add"}

(* Both handlers run in worker threads: a query can also be switched out   *)
(* inside its blocking retrieval and completion call.                      *)
AwaitPcsAllThreaded == {"up_await", "lapd_create", "lapd_add", "ga_invoke"}

AwaitPcs == {"up_await"}

Running(r) == proc = "up" /\ loop = r

(* Who holds the loop once request r has moved to position pc *)
LoopAfter(r, pc) == IF pc \in AwaitPcs THEN 0 ELSE r

Set(r, rec) ==
    /\ req' = [req EXCEPT ![r] = rec]
    /\ loop' = LoopAfter(r, rec.pc)

(* A suspended coroutine is scheduled again *)
Resume(r) ==
    /\ proc = "up" /\ loop = 0
    /\ req[r].pc \in AwaitPcs
    /\ loop' = r
    /\ UNCHANGED <<proc, boots, vector_store, disk, req>>

----------------------------------------------------------------------------
(* RAGHandler.load_and_process_documents *)

(* Entry of load_and_process_documents(paths); pre and predisk remember    *)
(* the index as the call found it.                                         *)
EnterLapd(rq, paths) ==
    [rq EXCEPT !.pc = "lapd_loop", !.file_paths = paths, !.i = 1,
               !.all_chunks = <<>>, !.pre = vector_store, !.predisk = disk]

(* A direct call, as the tests and the __main__ example make it *)
StartDirect(r, paths) ==
    /\ proc = "up" /\ loop = 0
    /\ Free(r)
    /\ Set(r, EnterLapd([req[r] EXCEPT !.kind = "direct"], paths))
    /\ UNCHANGED <<proc, boots, vector_store, disk>>

Continue(rq) == [rq EXCEPT !.i = @ + 1]

(* The try placed around the whole loop: the first error ends the loop *)
OnFileErrorAbort(rq) == [rq EXCEPT !.i = Len(rq.file_paths) + 1]

(* except Exception (lines 105-106): the file is given up, the loop goes on *)
OnFileError(rq) == Continue(rq)

(* One iteration of the for loop (lines 79-106) *)
LoopBody(rq) ==
    LET f == rq.file_paths[rq.i]
    IN  IF ~Exists(f) THEN Continue(rq)
        ELSE IF Lower(Extension(f)) \notin {".pdf", ".txt", ".docx"} THEN Continue(rq)
        ELSE IF LoaderRaises(f) THEN OnFileError(rq)
        ELSE Continue([rq EXCEPT !.all_chunks = @ \o SplitDocuments(f)])

LapdLoop(r) ==
    /\ Running(r)
    /\ req[r].pc = "lapd_loop"
    /\ LET rq == req[r]
       IN  IF rq.i <= Len(rq.file_paths)
           THEN Set(r, LoopBody(rq))
           ELSE Set(r, [rq EXCEPT !.pc = "lapd_check"])
    /\ UNCHANGED <<proc, boots, vector_store, disk>>

(* Lines 108-110 left out *)
AfterLoopNoGuard(rq, store) ==
    IF ~store.present THEN "lapd_create" ELSE "lapd_add"

(* The index is rebuilt from the batch whether or not one exists *)
AfterLoopAlwaysCreate(rq, store) ==
    IF rq.all_chunks = <<>> THEN "lapd_ret" ELSE "lapd_create"

(* Lines 108-112: where the call goes once the loop is over *)
AfterLoop(rq, store) ==
    IF rq.all_chunks = <<>> THEN "lapd_ret"
    ELSE IF ~store.present THEN "lapd_create"
    ELSE "lapd_add"

LapdCheck(r) ==
    /\ Running(r)
    /\ req[r].pc = "lapd_check"
    /\ Set(r, [req[r] EXCEPT !.pc = AfterLoop(req[r], vector_store)])
    /\ UNCHANGED <<proc, boots, vector_store, disk>>

(* FAISS.from_documents: embeds every chunk, then builds the index.  ok is *)
(* whether the embedding provider answered.                                *)
FromDocuments(cs, ok) ==
    IF ok /\ cs # <<>> THEN [exc |-> FALSE, store |-> Index(cs)]
                       ELSE [exc |-> TRUE,  store |-> None]

(* FAISS.add_documents: embeds every chunk, then inserts them all *)
AddDocuments(store, cs, ok) ==
    IF ok THEN [exc |-> FALSE, store |-> Index(store.chunks \o cs)]
          ELSE [exc |-> TRUE,  store |-> store]

Op(name, cs, ok) == [op |-> name, chunks |-> cs, ok |-> ok]

(* Lines 113-118 *)
LapdCreate(r) ==
    /\ Running(r)
    /\ req[r].pc = "lapd_create"
    /\ \E ok \in BOOLEAN :
         LET rq  == req[r]
             res == FromDocuments(rq.all_chunks, ok)
             rq1 == [rq EXCEPT !.ops = Append(@, Op("create", rq.all_chunks, ~res.exc))]
         IN  IF res.exc
             THEN /\ Set(r, [rq1 EXCEPT !.pc = "lapd_ret"])
                  /\ UNCHANGED vector_store
             ELSE /\ Set(r, [rq1 EXCEPT !.pc = "save_begin"])
                  /\ vector_store' = res.store
    /\ UNCHANGED <<proc, boots, disk>>

(* Lines 120-125 without the return of line 125: a failed add goes on to save *)
LapdAddNoReturn(r) ==
    /\ Running(r)
    /\ req[r].pc = "lapd_add"
    /\ \E ok \in BOOLEAN :
         LET rq  == req[r]
             res == AddDocuments(vector_store, rq.all_chunks, ok)
             rq1 == [rq EXCEPT !.ops = Append(@, Op("add", rq.all_chunks, ~res.exc))]
         IN  /\ vector_store' = res.store
             /\ Set(r, [rq1 EXCEPT !.pc = "save_begin"])
    /\ UNCHANGED <<proc, boots, disk>>

(* The else branch rebuilding the index from the batch (from_documents)    *)
(* instead of adding to it                                                 *)
LapdAddRebuilds(r) ==
    /\ Running(r)
    /\ req[r].pc = "lapd_add"
    /\ \E ok \in BOOLEAN :
         LET rq  == req[r]
             res == FromDocuments(rq.all_chunks, ok)
             rq1 == [rq EXCEPT !.ops = Append(@, Op("add", rq.all_chunks, ~res.exc))]
         IN  IF res.exc
             THEN /\ Set(r, [rq1 EXCEPT !.pc = "lapd_ret"])
                  /\ UNCHANGED vector_store
             ELSE /\ Set(r, [rq1 EXCEPT !.pc = "save_begin"])
                  /\ vector_store' = res.store
    /\ UNCHANGED <<proc, boots, disk>>

(* The except clause of the add branch discarding the index *)
LapdAddFailResets(r) ==
    /\ Running(r)
    /\ req[r].pc = "lapd_add"
    /\ \E ok \in BOOLEAN :
         LET rq  == req[r]
             res == AddDocuments(vector_store, rq.all_chunks, ok)
             rq1 == [rq EXCEPT !.ops = Append(@, Op("add", rq.all_chunks, ~res.exc))]
         IN  IF res.exc
             THEN /\ vector_store' = None
                  /\ Set(r, [rq1 EXCEPT !.pc = "lapd_ret"])
             ELSE /\ vector_store' = res.store
                  /\ Set(r, [rq1 EXCEPT !.pc = "save_begin"])
    /\ UNCHANGED <<proc, boots, disk>>

(* Lines 120-125 *)
LapdAdd(r) ==
    /\ Running(r)
    /\ req[r].pc = "lapd_add"
    /\ \E ok \in BOOLEAN :
         LET rq  == req[r]
             res == AddDocuments(vector_store, rq.all_chunks, ok)
             rq1 == [rq EXCEPT !.ops = Append(@, Op("add", rq.all_chunks, ~res.exc))]
         IN  /\ vector_store' = res.store
             /\ IF res.exc
                THEN Set(r, [rq1 EXCEPT !.pc = "lapd_ret"])
                ELSE Set(r, [rq1 EXCEPT !.pc = "save_begin"])
    /\ UNCHANGED <<proc, boots, disk>>

(* _save_vector_store, lines 61-66: makedirs and the start of save_local.  *)
(* Either an exception before anything is written, or the files at the     *)
(* path are opened for writing and no longer hold a complete index.        *)
SaveBegin(r) ==
    /\ Running(r)
    /\ req[r].pc = "save_begin"
    /\ LET rq == [req[r] EXCEPT !.saves = @ + 1]
       IN  IF ~vector_store.present
           THEN /\ Set(r, [rq EXCEPT !.pc = "lapd_ret"])
                /\ UNCHANGED disk
           ELSE \E ok \in BOOLEAN :
                  IF ok
                  THEN /\ disk' = DiskCorrupt
                       /\ Set(r, [rq EXCEPT !.pc = "save_flush"])
                  ELSE /\ UNCHANGED disk
                       /\ Set(r, [rq EXCEPT !.pc = "lapd_ret", !.saveout = "failed"])
    /\ UNCHANGED <<proc, boots, vector_store>>

(* save_local completes (line 67), or raises half-way (lines 68-69) *)
SaveFlush(r) ==
    /\ Running(r)
    /\ req[r].pc = "save_flush"
    /\ \E ok \in BOOLEAN :
         IF ok
         THEN /\ disk' = DiskOk(vector_store.chunks)
              /\ Set(r, [req[r] EXCEPT !.pc = "lapd_ret", !.saveout = "saved"])
         ELSE /\ UNCHANGED disk
              /\ Set(r, [req[r] EXCEPT !.pc = "lapd_ret", !.saveout = "torn"])
    /\ UNCHANGED <<proc, boots, vector_store>>

(* load_and_process_documents returns None to its caller; upload_documents *)
(* then answers 200 (main.py lines 126-129).                               *)
LapdReturn(r) ==
    /\ Running(r)
    /\ req[r].pc = "lapd_ret"
    /\ Set(r, [req[r] EXCEPT !.pc = "ret", !.ret = RetNone,
                             !.http = IF req[r].kind = "upload" THEN 200 ELSE 0])
    /\ UNCHANGED <<proc, boots, vector_store, disk>>

----------------------------------------------------------------------------
(* upload_documents (main.py) *)

StartUpload(r, items) ==
    /\ proc = "up" /\ loop = 0
    /\ Free(r)
    /\ Set(r, [req[r] EXCEPT !.kind = "upload", !.pc = "up_loop",
                             !.items = items, !.i = 1])
    /\ UNCHANGED <<proc, boots, vector_store, disk>>

(* Lines 95-105 up to the await, and lines 115-120 once the loop is over *)
UpLoop(r) ==
    /\ Running(r)
    /\ req[r].pc = "up_loop"
    /\ LET rq == req[r]
       IN  IF rq.i > Len(rq.items)
           THEN IF rq.file_paths = <<>>
                THEN Set(r, [rq EXCEPT !.pc = "ret", !.ret = RetRaise, !.http = 400])
                ELSE Set(r, EnterLapd(rq, rq.file_paths))
           ELSE IF rq.items[rq.i].out \in {"noname", "openfail"}
                THEN Set(r, Continue(rq))
                ELSE Set(r, [rq EXCEPT !.pc = "up_await"])
    /\ UNCHANGED <<proc, boots, vector_store, disk>>

(* Lines 105-111 after file.read() has completed *)
UpWrite(r) ==
    /\ Running(r)
    /\ req[r].pc = "up_await"
    /\ LET rq == req[r]
           it == rq.items[rq.i]
       IN  IF it.out = "ok"
           THEN Set(r, [rq EXCEPT !.pc = "up_loop", !.i = @ + 1,
                                  !.file_paths = Append(@, it.file)])
           ELSE Set(r, [rq EXCEPT !.pc = "up_loop", !.i = @ + 1])
    /\ UNCHANGED <<proc, boots, vector_store, disk>>

----------------------------------------------------------------------------
(* chat_with_rag (main.py) and RAGHandler.get_answer *)

StartChat(r, q) ==
    /\ proc = "up" /\ loop = 0
    /\ Free(r)
    /\ Set(r, [req[r] EXCEPT !.kind = "chat", !.pc = "chat_check", !.query = q,
                             !.pre = vector_store, !.predisk = disk])
    /\ UNCHANGED <<proc, boots, vector_store, disk>>

(* get_answer called directly, as the tests do *)
StartAsk(r, q) ==
    /\ proc = "up" /\ loop = 0
    /\ Free(r)
    /\ Set(r, [req[r] EXCEPT !.kind = "ask", !.pc = "ga_check", !.query = q,
                             !.pre = vector_store, !.predisk = disk])
    /\ UNCHANGED <<proc, boots, vector_store, disk>>

(* main.py lines 139-140 *)
ChatCheck(r) ==
    /\ Running(r)
    /\ req[r].pc = "chat_check"
    /\ IF req[r].query = "" \/ Strip(req[r].query) = ""
       THEN Set(r, [req[r] EXCEPT !.pc = "ret", !.http = 400])
       ELSE Set(r, [req[r] EXCEPT !.pc = "ga_check"])
    /\ UNCHANGED <<proc, boots, vector_store, disk>>

(* Lines 140-142 raising instead of returning None *)
NotInitializedRaises(rq) == [rq EXCEPT !.pc = "ga_ret", !.ret = RetRaise]

(* rag_handler.py lines 140-142 *)
NotInitialized(rq) == [rq EXCEPT !.pc = "ga_ret", !.ret = RetNone]

GaCheck(r) ==
    /\ Running(r)
    /\ req[r].pc = "ga_check"
    /\ IF ~vector_store.present
       THEN Set(r, NotInitialized(req[r]))
       ELSE Set(r, [req[r] EXCEPT !.pc = "ga_invoke"])
    /\ UNCHANGED <<proc, boots, vector_store, disk>>

(* What qa_chain.invoke or the construction of the chain can do *)
Outcomes == {"chain_raises", "retrieval_raises", "completion_raises", "responds"}

(* The test of line 167 inverted *)
ResultOfInverted(answer) == IF ~Truthy(answer) THEN RetStr(Str(answer)) ELSE RetNone

(* Lines 157-171 *)
ResultOf(answer) == IF Truthy(answer) THEN RetStr(Str(answer)) ELSE RetNone

(* The except clause re-raising *)
OnQaErrorReraise == RetRaise

(* Lines 173-175 *)
OnQaError == RetNone

(* Lines 144-175 *)
GaInvoke(r) ==
    /\ Running(r)
    /\ req[r].pc = "ga_invoke"
    /\ \E o \in Outcomes, res \in Results :
         /\ (o # "responds") => res = PyNone
         /\ LET rq  == req[r]
                rq1 == [rq EXCEPT !.outcome = o, !.result = res,
                                  !.invoked = IF o = "chain_raises" THEN @
                                              ELSE Append(@, rq.query)]
            IN  Set(r, [rq1 EXCEPT !.pc = "ga_ret",
                                   !.ret = IF o = "responds" THEN ResultOf(res)
                                           ELSE OnQaError])
    /\ UNCHANGED <<proc, boots, vector_store, disk>>

(* get_answer returns; chat_with_rag maps the value (main.py 142-159) *)
GaReturn(r) ==
    /\ Running(r)
    /\ req[r].pc = "ga_ret"
    /\ LET rq == req[r]
           code == IF rq.kind # "chat" THEN 0
                   ELSE IF rq.ret.t = "raise" THEN 500
                   ELSE IF rq.ret.t = "none" THEN 404
                   ELSE 200
       IN  Set(r, [rq EXCEPT !.pc = "ret", !.http = code])
    /\ UNCHANGED <<proc, boots, vector_store, disk>>

(* The response is sent and the handler's frame is dropped *)
Respond(r) ==
    /\ Running(r)
    /\ req[r].pc = "ret"
    /\ req' = [req EXCEPT ![r] = GoneReq]
    /\ loop' = 0
    /\ UNCHANGED <<proc, boots, vector_store, disk>>

----------------------------------------------------------------------------

InitDisks == {DiskAbsent, DiskCorrupt, DiskOk(<<21>>)}

Init ==
    /\ proc = "down"
    /\ boots = 0
    /\ vector_store = None
    /\ disk \in InitDisks
    /\ loop = 0
    /\ req = [r \in Slots |-> IdleReq]

Next ==
    \/ Boot
    \/ Crash
    \/ \E r \in Slots : \E paths \in Batches : StartDirect(r, paths)
    \/ \E r \in Slots : \E items \in Uploads : StartUpload(r, items)
    \/ \E r \in Slots : \E q \in Queries : StartChat(r, q)
    \/ \E r \in Slots : \E q \in Queries : StartAsk(r, q)
    \/ \E r \in Slots : Resume(r)
    \/ \E r \in Slots : LapdLoop(r)
    \/ \E r \in Slots : LapdCheck(r)
    \/ \E r \in Slots : LapdCreate(r)
    \/ \E r \in Slots : LapdAdd(r)
    \/ \E r \in Slots : SaveBegin(r)
    \/ \E r \in Slots : SaveFlush(r)
    \/ \E r \in Slots : LapdReturn(r)
    \/ \E r \in Slots : UpLoop(r)
    \/ \E r \in Slots : UpWrite(r)
    \/ \E r \in Slots : ChatCheck(r)
    \/ \E r \in Slots : GaCheck(r)
    \/ \E r \in Slots : GaInvoke(r)
    \/ \E r \in Slots : GaReturn(r)
    \/ \E r \in Slots : Respond(r)

Spec == Init /\ [][Next]_vars

(* One call in a process: every step of the first request, whatever its    *)
(* kind and input, from each index the start-up load can produce.          *)
NextCall ==
    \/ Boot
    \/ Crash
    \/ \E paths \in Batches : StartDirect(1, paths)
    \/ \E items \in Uploads : StartUpload(1, items)
    \/ \E q \in Queries : StartChat(1, q)
    \/ \E q \in Queries : StartAsk(1, q)
    \/ Resume(1)
    \/ LapdLoop(1)
    \/ LapdCheck(1)
    \/ LapdCreate(1)
    \/ LapdAdd(1)
    \/ SaveBegin(1)
    \/ SaveFlush(1)
    \/ LapdReturn(1)
    \/ UpLoop(1)
    \/ UpWrite(1)
    \/ ChatCheck(1)
    \/ GaCheck(1)
    \/ GaInvoke(1)
    \/ GaReturn(1)
    \/ Respond(1)

SpecCall == Init /\ [][NextCall]_vars

(* Concurrent upload requests of one part each: each is suspended once,   *)
(* at the await of its part, before its batch is processed.               *)
OnePartUploads == SeqsOf(UploadItems, 1, 1)

NextUploads ==
    \/ Boot
    \/ \E r \in Slots : \E items \in OnePartUploads : StartUpload(r, items)
    \/ \E r \in Slots : Resume(r)
    \/ \E r \in Slots : UpLoop(r)
    \/ \E r \in Slots : UpWrite(r)
    \/ \E r \in Slots : LapdLoop(r)
    \/ \E r \in Slots : LapdCheck(r)
    \/ \E r \in Slots : LapdCreate(r)
    \/ \E r \in Slots : LapdAdd(r)
    \/ \E r \in Slots : SaveBegin(r)
    \/ \E r \in Slots : SaveFlush(r)
    \/ \E r \in Slots : LapdReturn(r)
    \/ \E r \in Slots : Respond(r)

SpecUploads == Init /\ [][NextUploads]_vars

(* The server under load: one-part uploads and chat requests, each able to *)
(* arrive while an upload is suspended at its await.                       *)
NextServer ==
    \/ NextUploads
    \/ \E r \in Slots : \E q \in Queries : StartChat(r, q)
    \/ \E r \in Slots : ChatCheck(r)
    \/ \E r \in Slots : GaCheck(r)
    \/ \E r \in Slots : GaInvoke(r)
    \/ \E r \in Slots : GaReturn(r)

SpecServer == Init /\ [][NextServer]_vars

----------------------------------------------------------------------------
(* Properties *)

(* A path that yields no chunk: missing, unsupported, or its loader raises *)
FileFails(f) ==
    \/ ~Exists(f)
    \/ Lower(Extension(f)) \notin {".pdf", ".txt", ".docx"}
    \/ LoaderRaises(f)

(* The chunks of the files of a batch that do not fail, in file order *)
RECURSIVE BatchChunks(_)
BatchChunks(ps) ==
    IF ps = <<>> THEN <<>>
    ELSE (IF FileFails(Head(ps)) THEN <<>> ELSE SplitDocuments(Head(ps)))
         \o BatchChunks(Tail(ps))

InGetAnswer(r) == req[r].kind \in {"chat", "ask"} /\ req[r].pc = "ga_ret"
LapdOver(r)    == req[r].kind \in {"upload", "direct"} /\ req[r].pc = "lapd_ret"
LoopOver(r)    == req[r].pc \in {"lapd_check", "lapd_create", "lapd_add",
                                 "save_begin", "save_flush", "lapd_ret"}

(* C1: get_answer on an absent index returns None, does not raise, and     *)
(* issues no retrieval or completion call, whatever the query.             *)
C1_NoIndexAnswerAbsent ==
    \A r \in Slots :
        (InGetAnswer(r) /\ ~req[r].pre.present)
            => (req[r].ret = RetNone /\ req[r].invoked = <<>>)

C1_Witness ==
    \E r \in Slots :
        InGetAnswer(r) /\ ~req[r].pre.present /\ req[r].query = " q "

(* C2: when the create or the add of a call fails, the in-memory index and *)
(* the persisted index are what they were when the call began, and persist *)
(* is not invoked.                                                         *)
C2_FailedMutationLeavesIndex ==
    \A r \in Slots :
        (LapdOver(r) /\ req[r].ops # <<>> /\ ~req[r].ops[Len(req[r].ops)].ok)
            => /\ vector_store = req[r].pre
               /\ disk = req[r].predisk
               /\ req[r].saves = 0

C2_Witness ==
    \E r \in Slots :
        /\ LapdOver(r)
        /\ req[r].ops = <<Op("add", <<11, 12>>, FALSE)>>
        /\ req[r].pre.present
        /\ req[r].predisk.st = "ok"

(* C3: a batch that yields no chunk invokes no index operation and no      *)
(* persist, and leaves the in-memory and the persisted index unchanged.    *)
C3_EmptyBatchNoOperation ==
    \A r \in Slots :
        (LapdOver(r) /\ BatchChunks(req[r].file_paths) = <<>>)
            => /\ req[r].ops = <<>>
               /\ req[r].saves = 0
               /\ vector_store = req[r].pre
               /\ disk = req[r].predisk

C3_Witness ==
    \E r \in Slots :
        /\ LapdOver(r)
        /\ req[r].file_paths = <<3, 4>>
        /\ req[r].pre.present

(* C4: once the loop is over, the chunks gathered are those of every file  *)
(* of the batch that does not fail, in file order, and they are what the   *)
(* index operation receives.                                               *)
C4_FileFailuresIsolated ==
    \A r \in Slots :
        LoopOver(r)
            => /\ req[r].all_chunks = BatchChunks(req[r].file_paths)
               /\ \A k \in 1..Len(req[r].ops) :
                     req[r].ops[k].chunks = BatchChunks(req[r].file_paths)

C4_Witness ==
    \E r \in Slots :
        /\ LapdOver(r)
        /\ req[r].file_paths = <<5, 1>>
        /\ req[r].ops # <<>>
        /\ req[r].ops[1].chunks = <<11, 12>>

(* C5: a call that gathered at least one chunk invokes exactly one index   *)
(* operation, on all the chunks: create if the index was absent, add if it *)
(* was present.                                                            *)
C5_OneIndexOperation ==
    \A r \in Slots :
        (LapdOver(r) /\ req[r].all_chunks # <<>>)
            => /\ Len(req[r].ops) = 1
               /\ req[r].ops[1].op = (IF req[r].pre.present THEN "add" ELSE "create")
               /\ req[r].ops[1].chunks = req[r].all_chunks

(* a two-file batch added to the index that the start-up load produced *)
C5_Witness ==
    /\ LapdOver(1)
    /\ \A s \in Slots \ {1} : req[s].kind = "idle"
    /\ req[1].file_paths = <<1, 2>>
    /\ req[1].pre = Index(<<21>>)
    /\ req[1].ops = <<Op("add", <<11, 12, 21>>, TRUE)>>

(* C6: when load_and_process_documents returns after a successful create   *)
(* or add, the persisted index holds the chunks of the in-memory index, so *)
(* that loading it yields the in-memory index.                             *)
C6_PersistedAfterUpdate ==
    \A r \in Slots :
        (LapdOver(r) /\ req[r].ops # <<>> /\ req[r].ops[Len(req[r].ops)].ok)
            => /\ disk = DiskOk(vector_store.chunks)
               /\ LoadVectorStore(disk).store = vector_store

(* The positions of a create/add-then-persist sequence *)
MutationPcs == {"lapd_create", "lapd_add", "save_begin", "save_flush"}

(* What a call that found (pre, predisk) leaves when it runs alone *)
AloneStore(rq) ==
    IF rq.ops # <<>> /\ rq.ops[1].ok
    THEN Index(rq.pre.chunks \o BatchChunks(rq.file_paths))
    ELSE rq.pre

AloneDisk(rq) ==
    CASE rq.saveout = "saved" -> DiskOk(AloneStore(rq).chunks)
      [] rq.saveout = "torn"  -> DiskCorrupt
      [] OTHER                -> rq.predisk

(* C7: at most one create/add-then-persist sequence is in flight, and each *)
(* call leaves the in-memory and the persisted index as it would have left *)
(* them running alone from the index it found: concurrent batches act as   *)
(* if run one after the other.                                             *)
C7_MutationsSerialized ==
    /\ Cardinality({r \in Slots : req[r].pc \in MutationPcs}) <= 1
    /\ \A r \in Slots :
          LapdOver(r) => (vector_store = AloneStore(req[r]) /\ disk = AloneDisk(req[r]))

(* an upload suspended at its await while a later upload completes its batch *)
C7_Witness ==
    \E r, s \in Slots :
        /\ r < s
        /\ req[r].kind = "upload" /\ req[r].pc = "up_await"
        /\ req[s].kind = "upload" /\ LapdOver(s) /\ req[s].saveout = "saved"
        /\ req[s].pre.present

NonEmptyText(v) == v.t = "str" /\ v.s # ""

(* C8: with the index present and a non-empty text as completion result,   *)
(* get_answer made exactly one invocation, with the caller's query, and    *)
(* returns that text unchanged.                                            *)
C8_AnswerVerbatim ==
    \A r \in Slots :
        (InGetAnswer(r) /\ req[r].pre.present /\ req[r].outcome = "responds"
            /\ NonEmptyText(req[r].result))
            => /\ req[r].invoked = <<req[r].query>>
               /\ req[r].ret = RetStr(req[r].result.s)

C8_Witness ==
    \E r \in Slots :
        /\ InGetAnswer(r) /\ req[r].pre.present
        /\ req[r].query = " q "
        /\ req[r].result = PyStr(" Paris. ")
        /\ req[r].ret = RetStr(" Paris. ")

QaFailed(rq) ==
    \/ rq.outcome \in {"chain_raises", "retrieval_raises", "completion_raises"}
    \/ rq.outcome = "responds" /\ rq.result \in {PyNone, PyStr("")}

(* C9: with the index present, a failed retrieval or completion, or a      *)
(* missing or empty result, makes get_answer return None without raising,  *)
(* after at most one invocation, the index in memory and on disk unchanged. *)
C9_QueryFailureIsAbsent ==
    \A r \in Slots :
        (InGetAnswer(r) /\ req[r].pre.present /\ QaFailed(req[r]))
            => /\ req[r].ret = RetNone
               /\ Len(req[r].invoked) <= 1
               /\ vector_store = req[r].pre
               /\ disk = req[r].predisk

C9_Witness ==
    \E r \in Slots :
        /\ InGetAnswer(r) /\ req[r].pre.present
        /\ req[r].outcome = "completion_raises"
        /\ req[r].invoked = <<req[r].query>>

(* C10: a process start never crashes: it ends with the process up, the    *)
(* in-memory index present exactly when the stored data deserializes, and  *)
(* absent when nothing is stored or the stored data is unreadable.         *)
C10_BootNeverCrashes ==
    [][(proc = "down" /\ proc' # "down")
         => /\ proc' = "up"
            /\ vector_store' = (IF disk.st = "ok" THEN Index(disk.chunks) ELSE None)]_vars

C10_Witness ==
    /\ proc = "up"
    /\ disk.st = "corrupt"
    /\ ~vector_store.present
    /\ \A r \in Slots : req[r].kind = "idle"

(* s begins with p *)
IsPrefix(p, s) == Len(p) <= Len(s) /\ SubSeq(s, 1, Len(p)) = p

(* s ends with p *)
IsSuffix(p, s) == Len(p) <= Len(s) /\ SubSeq(s, Len(s) - Len(p) + 1, Len(s)) = p

SameProcess == proc = "up" /\ proc' = "up"

(* C11: while the process runs, no step removes or replaces a chunk of the *)
(* index (the chunks before the step are the first chunks after it), and   *)
(* the step of a successful add leaves the chunks of its batch in it.      *)
C11_IndexOnlyGrows ==
    [][SameProcess
         => /\ IsPrefix(vector_store.chunks, vector_store'.chunks)
            /\ \A r \in Slots :
                  (req[r].pc = "lapd_add" /\ req'[r].pc = "save_begin")
                      => /\ IsSuffix(req[r].all_chunks, vector_store'.chunks)
                         /\ Len(vector_store'.chunks)
                              = Len(vector_store.chunks) + Len(req[r].all_chunks)]_vars

(* a second batch was added to an index that an earlier batch had created *)
C11_Witness ==
    \E r \in Slots :
        /\ LapdOver(r)
        /\ req[r].ops = <<Op("add", <<21>>, TRUE)>>
        /\ req[r].pre = Index(<<11, 12>>)
        /\ vector_store = Index(<<11, 12, 21>>)

(* What the caller holds once the handler has returned: the value of       *)
(* load_and_process_documents and, for an upload, the status of the reply  *)
(* and the number of files its message counts.                             *)
Report(rq) == [ret |-> rq.ret, http |-> rq.http, files |-> Len(rq.file_paths)]

IngestReturned(r) ==
    /\ req[r].kind \in {"upload", "direct"}
    /\ req[r].pc = "ret"
    /\ req[r].ret = RetNone

(* What the caller of such a call holds when the batch updated the index *)
UpdatedReport(rq) ==
    [ret |-> RetNone, http |-> IF rq.kind = "upload" THEN 200 ELSE 0,
     files |-> Len(rq.file_paths)]

(* C12: the caller of a batch that yielded no chunk receives an outcome    *)
(* that differs from the one it receives for a batch that updated the      *)
(* index.                                                                  *)
C12_EmptyBatchReported ==
    \A r \in Slots :
        (IngestReturned(r) /\ req[r].all_chunks = <<>>)
            => Report(req[r]) # UpdatedReport(req[r])

InSave(r) == req[r].pc \in {"save_begin", "save_flush"}

(* C13: when the process is killed while a call is in _save_vector_store   *)
(* and a readable index was stored before, the path afterwards holds a     *)
(* readable index: the old one complete or the new one complete.           *)
C13_SaveCrashAtomic ==
    [][\A r \in Slots :
         (proc = "up" /\ proc' = "down" /\ InSave(r) /\ req[r].predisk.st = "ok")
             => disk' \in {req[r].predisk, DiskOk(vector_store.chunks)}]_vars

(* The positions inside load_and_process_documents and inside get_answer *)
LapdPcs == {"lapd_loop", "lapd_check", "lapd_create", "lapd_add",
            "save_begin", "save_flush", "lapd_ret"}
GaPcs   == {"ga_check", "ga_invoke", "ga_ret"}

(* C14: while a query is inside get_answer no ingestion call is between    *)
(* its entry and its return, and the index the query reads is the index it *)
(* found: the index before or after a whole batch, never in between.       *)
C14_QuerySeesWholeBatches ==
    \A r \in Slots :
        req[r].pc \in GaPcs
            => /\ \A s \in Slots \ {r} : req[s].pc \notin LapdPcs
               /\ vector_store = req[r].pre

(* a query answered while an earlier upload is suspended at its await *)
C14_Witness ==
    \E r, s \in Slots :
        /\ s < r
        /\ req[s].kind = "upload" /\ req[s].pc = "up_await"
        /\ req[r].kind = "chat" /\ req[r].pc = "ga_ret"
        /\ req[r].pre.present
        /\ req[r].outcome = "responds"

(* C15: while the process runs, a present index stays present over every   *)
(* step, and a create succeeds only on an absent index, hence at most once *)
(* per process.                                                            *)
C15_PresentStaysPresent ==
    [][SameProcess
         => /\ vector_store.present => vector_store'.present
            /\ \A r \in Slots :
                  (req[r].pc = "lapd_create" /\ req'[r].pc = "save_begin")
                      => ~vector_store.present]_vars

(* an index created in this process survives the failed add of a later batch *)
C15_Witness ==
    \E r \in Slots :
        /\ LapdOver(r)
        /\ req[r].pre = Index(<<11, 12>>)
        /\ req[r].ops = <<Op("add", <<21>>, FALSE)>>
        /\ vector_store = Index(<<11, 12>>)

====
